---- MODULE Spec2Model ----
(***************************************************************************)
(* Model of the array-backed heaps of src/d_heap.py (class DHeap) and     *)
(* src/binaryheap.py (class BinaryHeap).                                  *)
(* The heap is a Python list heap_array in level order plus last_index,   *)
(* the index of the last live element.  Python indices are 0-based, TLA+  *)
(* sequences 1-based: index i of the list is element i + 1 of the         *)
(* sequence.  An operation that raises leaves the object as the code left *)
(* it at the moment of the raise; outcome records the exception.          *)
(***************************************************************************)
EXTENDS Integers, Sequences, FiniteSets, TLC

\* ------------------------------------------------------------------ bounds
MaxLen == 4            \* longest list given to heapify; a heap is pushed to while shorter
MaxInit == 3           \* longest list given to the constructor
MaxSort == 5           \* longest list given to heapsort
MaxDrain == 4          \* longest list of a heap that is popped until empty
MaxBF == 3             \* largest branching factor tried
NegBF == 2             \* smallest branching factor tried is -NegBF
RecursionLimit == 8    \* stack frames left to a recursive call chain

\* the elements stored: three values make duplicates and strict orders both occur
Values == {0, 1, 2}
BranchingFactors == (0 - NegBF)..MaxBF
ListsUpTo(n) == UNION {[1..k -> Values] : k \in 0..n}
\* The interpreter's recursion limit is hit at a depth that depends on the
\* frames already on the stack: both parities are possible.
Limits == {RecursionLimit, RecursionLimit + 1}

\* --------------------------------------------------------- Python helpers
\* a // b of Python: floor division, for either sign of b (b # 0).
FloorDiv(a, b) == IF b > 0 THEN a \div b ELSE (0 - a) \div (0 - b)

\* A removal that drops the first element whatever the index.
RemoveAt_first(arr, i) == Tail(arr)

\* list.pop(i): the list without its element at index i.
RemoveAt(arr, i) == SubSeq(arr, 1, i) \o SubSeq(arr, i + 2, Len(arr))

\* ------------------------------------------------------------ DHeap code
\* DHeap.__swap
swap(arr, index_1, index_2) ==
    [arr EXCEPT ![index_1 + 1] = arr[index_2 + 1], ![index_2 + 1] = arr[index_1 + 1]]

\* DHeap.__compare: TRUE iff the first value should be higher up.
compare(arr, mh, index_1, index_2) ==
    IF mh THEN arr[index_1 + 1] > arr[index_2 + 1]
          ELSE arr[index_1 + 1] < arr[index_2 + 1]

\* A sift-up that computes the parent as index // branching_factor.
parent_of_off(index, bf) == FloorDiv(index, bf)

\* parent = (index - 1) // self.branching_factor
parent_of(index, bf) == FloorDiv(index - 1, bf)

\* DHeap.__sift_up.  limit is the number of nested calls the interpreter
\* still allows; the result is the list and the exception raised, if any.
RECURSIVE sift_up(_, _, _, _, _)
sift_up(arr, mh, bf, index, limit) ==
    IF bf = 0 THEN [arr |-> arr, err |-> "ZeroDivisionError"]
    ELSE LET parent == parent_of(index, bf) IN
         IF parent >= 0
         THEN IF parent + 1 > Len(arr) THEN [arr |-> arr, err |-> "IndexError"]
              ELSE IF compare(arr, mh, index, parent)
                   THEN IF limit = 0 THEN [arr |-> arr, err |-> "RecursionError"]
                        ELSE sift_up(swap(arr, index, parent), mh, bf, parent, limit - 1)
                   ELSE [arr |-> arr, err |-> "ok"]
         ELSE [arr |-> arr, err |-> "ok"]

\* A scan that lets a later child take over from an earlier child that is
\* its equal.
RECURSIVE scan_children_ties_last(_, _, _, _, _, _, _)
scan_children_ties_last(arr, mh, bf, last, index, i, new_parent) ==
    IF i <= bf
    THEN LET child == (index * bf) + i IN
         scan_children_ties_last(arr, mh, bf, last, index, i + 1,
                       IF child <= last /\ (\/ compare(arr, mh, child, new_parent)
                                            \/ /\ new_parent # index
                                               /\ arr[child + 1] = arr[new_parent + 1])
                       THEN child ELSE new_parent)
    ELSE new_parent

\* The while loop of DHeap.__sift_down: the index of the best node among
\* index and its children i..branching_factor within the live range.
RECURSIVE scan_children(_, _, _, _, _, _, _)
scan_children(arr, mh, bf, last, index, i, new_parent) ==
    IF i <= bf
    THEN LET child == (index * bf) + i IN
         scan_children(arr, mh, bf, last, index, i + 1,
                       IF child <= last /\ compare(arr, mh, child, new_parent)
                       THEN child ELSE new_parent)
    ELSE new_parent

\* DHeap.__sift_down
RECURSIVE sift_down(_, _, _, _, _)
sift_down(arr, mh, bf, last, index) ==
    LET new_parent == scan_children(arr, mh, bf, last, index, 1, index) IN
    IF new_parent # index
    THEN sift_down(swap(arr, index, new_parent), mh, bf, last, new_parent)
    ELSE arr

\* A sift-up step that also swaps an element with a parent that is its equal.
sift_up_step_swaps_equal(arr, mh, bf, index, limit) ==
    IF bf = 0 THEN [arr |-> arr, index |-> index, next |-> "raise", err |-> "ZeroDivisionError"]
    ELSE LET parent == parent_of(index, bf) IN
         IF parent >= 0
         THEN IF parent + 1 > Len(arr)
              THEN [arr |-> arr, index |-> index, next |-> "raise", err |-> "IndexError"]
              ELSE IF compare(arr, mh, index, parent) \/ arr[index + 1] = arr[parent + 1]
                   THEN IF limit = 0
                        THEN [arr |-> arr, index |-> index, next |-> "raise",
                              err |-> "RecursionError"]
                        ELSE [arr |-> swap(arr, index, parent), index |-> parent,
                              next |-> "call", err |-> "ok"]
                   ELSE [arr |-> arr, index |-> index, next |-> "return", err |-> "ok"]
         ELSE [arr |-> arr, index |-> index, next |-> "return", err |-> "ok"]

\* One call of DHeap.__sift_up, up to the call it makes to itself: the list,
\* the index it goes on with, and whether it calls itself, returns or raises.
sift_up_step(arr, mh, bf, index, limit) ==
    IF bf = 0 THEN [arr |-> arr, index |-> index, next |-> "raise", err |-> "ZeroDivisionError"]
    ELSE LET parent == parent_of(index, bf) IN
         IF parent >= 0
         THEN IF parent + 1 > Len(arr)
              THEN [arr |-> arr, index |-> index, next |-> "raise", err |-> "IndexError"]
              ELSE IF compare(arr, mh, index, parent)
                   THEN IF limit = 0
                        THEN [arr |-> arr, index |-> index, next |-> "raise",
                              err |-> "RecursionError"]
                        ELSE [arr |-> swap(arr, index, parent), index |-> parent,
                              next |-> "call", err |-> "ok"]
                   ELSE [arr |-> arr, index |-> index, next |-> "return", err |-> "ok"]
         ELSE [arr |-> arr, index |-> index, next |-> "return", err |-> "ok"]

\* One call of DHeap.__sift_down, up to the call it makes to itself.
sift_down_step(arr, mh, bf, last, index) ==
    LET new_parent == scan_children(arr, mh, bf, last, index, 1, index) IN
    IF new_parent # index
    THEN [arr |-> swap(arr, index, new_parent), index |-> new_parent, next |-> "call"]
    ELSE [arr |-> arr, index |-> index, next |-> "return"]

\* DHeap.peek
peek(arr) ==
    IF Len(arr) = 0 THEN [err |-> "IndexError", val |-> <<>>]
    ELSE [err |-> "ok", val |-> <<arr[1]>>]

\* A pop that decrements last_index before it reads the root.
pop_decrements_first(arr, mh, bf, last) ==
    IF Len(arr) = 0
    THEN [arr |-> arr, last |-> last - 1, err |-> "IndexError", val |-> <<>>]
    ELSE LET removed == RemoveAt(swap(arr, 0, last), last) IN
         [arr |-> sift_down(removed, mh, bf, last - 1, 0),
          last |-> last - 1, err |-> "ok", val |-> <<arr[1]>>]

\* DHeap.pop
pop(arr, mh, bf, last) ==
    LET p == peek(arr) IN
    IF p.err # "ok"
    THEN [arr |-> arr, last |-> last, err |-> p.err, val |-> <<>>]
    ELSE LET removed == RemoveAt(swap(arr, 0, last), last) IN
         [arr |-> sift_down(removed, mh, bf, last - 1, 0),
          last |-> last - 1, err |-> "ok", val |-> p.val]

\* DHeap.push
push(arr, mh, bf, last, val, limit) ==
    LET r == sift_up(Append(arr, val), mh, bf, last + 1, limit) IN
    [arr |-> r.arr, last |-> last + 1, err |-> r.err]

\* The for loop of DHeap.__init__ : pushes initial_contents[k..] in order;
\* an exception of push leaves the constructor.
RECURSIVE init_loop(_, _, _, _, _, _, _)
init_loop(arr, mh, bf, last, contents, k, limit) ==
    IF k > Len(contents) THEN [arr |-> arr, last |-> last, err |-> "ok"]
    ELSE LET r == push(arr, mh, bf, last, contents[k], limit) IN
         IF r.err # "ok" THEN r
         ELSE init_loop(r.arr, mh, bf, r.last, contents, k + 1, limit)

\* A constructor that wraps the caller's list as heapify does.
init_wraps(initial_contents, mh, bf, limit) ==
    [arr |-> initial_contents, last |-> Len(initial_contents) - 1, err |-> "ok", shared |-> TRUE]

\* DHeap.__init__ : the heap starts on a fresh list (shared is FALSE) and
\* pushes the values of initial_contents, which it only reads.
init(initial_contents, mh, bf, limit) ==
    LET r == init_loop(<<>>, mh, bf, -1, initial_contents, 1, limit) IN
    [arr |-> r.arr, last |-> r.last, err |-> r.err, shared |-> FALSE]

\* A heapify that starts one below the parent of the last node.
heapify_start_skip(last, bf) == FloorDiv(last - 1, bf) - 1

\* start = (heap.last_index - 1) // heap.branching_factor
heapify_start(last, bf) == FloorDiv(last - 1, bf)

\* A loop that leaves its counter as it is.
heapify_next_stuck(start) == start

\* start -= 1
heapify_next(start) == start - 1

\* The while loop of DHeap.heapify
RECURSIVE heapify_loop(_, _, _, _, _)
heapify_loop(arr, mh, bf, last, start) ==
    IF start >= 0
    THEN heapify_loop(sift_down(arr, mh, bf, last, start), mh, bf, last, start - 1)
    ELSE arr

\* A heapify that builds the heap on a copy of the list.
heapify_copies(unordered_list, mh, bf) ==
    LET last == Len(unordered_list) - 1 IN
    IF bf = 0
    THEN [arr |-> unordered_list, last |-> last, err |-> "ZeroDivisionError", shared |-> FALSE]
    ELSE [arr |-> heapify_loop(unordered_list, mh, bf, last, heapify_start(last, bf)),
          last |-> last, err |-> "ok", shared |-> FALSE]

\* DHeap.heapify : heap.heap_array is unordered_list itself (shared is TRUE)
heapify(unordered_list, mh, bf) ==
    LET last == Len(unordered_list) - 1 IN
    IF bf = 0
    THEN [arr |-> unordered_list, last |-> last, err |-> "ZeroDivisionError", shared |-> TRUE]
    ELSE [arr |-> heapify_loop(unordered_list, mh, bf, last, heapify_start(last, bf)),
          last |-> last, err |-> "ok", shared |-> TRUE]

\* branching_factor=2, the default of DHeap.heapify, which heapsort relies on
DefaultBranchingFactor == 2

\* An extraction that shrinks the live range without the swap.
heapsort_take_no_swap(arr, last) == [arr |-> arr, last |-> last - 1]

\* heap.__swap(0, heap.last_index); heap.last_index -= 1
heapsort_take(arr, last) == [arr |-> swap(arr, 0, last), last |-> last - 1]

\* A heapsort that sifts down before it shrinks the live range.
RECURSIVE heapsort_loop_keep(_, _, _, _)
heapsort_loop_keep(arr, mh, bf, last) ==
    IF last >= 0
    THEN heapsort_loop_keep(sift_down(swap(arr, 0, last), mh, bf, last, 0), mh, bf, last - 1)
    ELSE arr

\* The while loop of DHeap.heapsort
RECURSIVE heapsort_loop(_, _, _, _)
heapsort_loop(arr, mh, bf, last) ==
    IF last >= 0
    THEN heapsort_loop(sift_down(swap(arr, 0, last), mh, bf, last - 1, 0), mh, bf, last - 1)
    ELSE arr

\* DHeap.heapsort
heapsort(unordered_list, ascending) ==
    LET h == heapify(unordered_list, ascending, DefaultBranchingFactor) IN
    heapsort_loop(h.arr, ascending, DefaultBranchingFactor, h.last)

\* A validation that tests every child of a node before it descends.
RECURSIVE validate_heap_every_child(_, _, _, _, _)
validate_heap_every_child(arr, mh, bf, last, parent) ==
    LET first_child == (parent * bf) + 1
        inrange == {i \in 0..(bf - 1) : first_child + i <= last}
    IN  IF inrange = {} THEN TRUE
        ELSE IF \E i \in inrange : compare(arr, mh, first_child + i, parent) THEN FALSE
        ELSE validate_heap_every_child(arr, mh, bf, last, first_child)

\* DHeap.validate_heap: the while loop returns at the first child in range.
RECURSIVE validate_heap(_, _, _, _, _)
validate_heap(arr, mh, bf, last, parent) ==
    LET first_child == (parent * bf) + 1
        inrange == {i \in 0..(bf - 1) : first_child + i <= last}
    IN  IF inrange = {} THEN TRUE
        ELSE LET child == first_child + (CHOOSE i \in inrange : \A j \in inrange : i <= j) IN
             IF compare(arr, mh, child, parent) THEN FALSE
             ELSE validate_heap(arr, mh, bf, last, child)

\* DHeap.__len__
len(last) == last + 1

\* ------------------------------------------------------- BinaryHeap code
\* The class of src/binaryheap.py: the same design with the branching factor
\* written into the code as 2.

\* BinaryHeap.__swap
bh_swap(arr, index_1, index_2) ==
    [arr EXCEPT ![index_1 + 1] = arr[index_2 + 1], ![index_2 + 1] = arr[index_1 + 1]]

\* BinaryHeap.__compare
bh_compare(arr, mh, index_1, index_2) ==
    IF mh THEN arr[index_1 + 1] > arr[index_2 + 1]
          ELSE arr[index_1 + 1] < arr[index_2 + 1]

\* BinaryHeap.__sift_up
RECURSIVE bh_sift_up(_, _, _)
bh_sift_up(arr, mh, index) ==
    LET parent == FloorDiv(index - 1, 2) IN
    IF parent >= 0 /\ bh_compare(arr, mh, index, parent)
    THEN bh_sift_up(bh_swap(arr, index, parent), mh, parent)
    ELSE arr

\* A sift-down that tests the right child against the node, not against the
\* better of the node and its left child.
RECURSIVE bh_sift_down_right_vs_node(_, _, _, _)
bh_sift_down_right_vs_node(arr, mh, last, index) ==
    LET left == (index * 2) + 1
        right == (index * 2) + 2
        after_left == IF left <= last /\ bh_compare(arr, mh, left, index) THEN left ELSE index
        new_parent == IF right <= last /\ bh_compare(arr, mh, right, index)
                      THEN right ELSE after_left
    IN  IF new_parent # index
        THEN bh_sift_down_right_vs_node(bh_swap(arr, index, new_parent), mh, last, new_parent)
        ELSE arr

\* BinaryHeap.__sift_down
RECURSIVE bh_sift_down(_, _, _, _)
bh_sift_down(arr, mh, last, index) ==
    LET left == (index * 2) + 1
        right == (index * 2) + 2
        after_left == IF left <= last /\ bh_compare(arr, mh, left, index) THEN left ELSE index
        new_parent == IF right <= last /\ bh_compare(arr, mh, right, after_left)
                      THEN right ELSE after_left
    IN  IF new_parent # index
        THEN bh_sift_down(bh_swap(arr, index, new_parent), mh, last, new_parent)
        ELSE arr

\* BinaryHeap.peek
bh_peek(arr) ==
    IF Len(arr) = 0 THEN [err |-> "IndexError", val |-> <<>>]
    ELSE [err |-> "ok", val |-> <<arr[1]>>]

\* BinaryHeap.pop
bh_pop(arr, mh, last) ==
    LET p == bh_peek(arr) IN
    IF p.err # "ok"
    THEN [arr |-> arr, last |-> last, err |-> p.err, val |-> <<>>]
    ELSE LET removed == RemoveAt(bh_swap(arr, 0, last), last) IN
         [arr |-> bh_sift_down(removed, mh, last - 1, 0),
          last |-> last - 1, err |-> "ok", val |-> p.val]

\* BinaryHeap.push
bh_push(arr, mh, last, val) ==
    [arr |-> bh_sift_up(Append(arr, val), mh, last + 1), last |-> last + 1, err |-> "ok"]

\* The for loop of BinaryHeap.__init__
RECURSIVE bh_init_loop(_, _, _, _, _)
bh_init_loop(arr, mh, last, contents, k) ==
    IF k > Len(contents) THEN [arr |-> arr, last |-> last, err |-> "ok"]
    ELSE LET r == bh_push(arr, mh, last, contents[k]) IN
         bh_init_loop(r.arr, mh, r.last, contents, k + 1)

\* BinaryHeap.__init__
bh_init(initial_contents, mh) ==
    LET r == bh_init_loop(<<>>, mh, -1, initial_contents, 1) IN
    [arr |-> r.arr, last |-> r.last, err |-> r.err, shared |-> FALSE]

\* The while loop of BinaryHeap.heapify
RECURSIVE bh_heapify_loop(_, _, _, _)
bh_heapify_loop(arr, mh, last, start) ==
    IF start >= 0
    THEN bh_heapify_loop(bh_sift_down(arr, mh, last, start), mh, last, start - 1)
    ELSE arr

\* BinaryHeap.heapify
bh_heapify(unordered_list, mh) ==
    LET last == Len(unordered_list) - 1 IN
    [arr |-> bh_heapify_loop(unordered_list, mh, last, FloorDiv(last - 1, 2)),
     last |-> last, err |-> "ok", shared |-> TRUE]

\* The while loop of BinaryHeap.heapsort
RECURSIVE bh_heapsort_loop(_, _, _)
bh_heapsort_loop(arr, mh, last) ==
    IF last >= 0
    THEN bh_heapsort_loop(bh_sift_down(bh_swap(arr, 0, last), mh, last - 1, 0), mh, last - 1)
    ELSE arr

\* BinaryHeap.heapsort
bh_heapsort(unordered_list, ascending) ==
    LET h == bh_heapify(unordered_list, ascending) IN
    bh_heapsort_loop(h.arr, ascending, h.last)

\* BinaryHeap.validate_heap: the while loop returns at the first child in range.
RECURSIVE bh_validate_heap(_, _, _, _)
bh_validate_heap(arr, mh, last, parent) ==
    LET first_child == (parent * 2) + 1
        inrange == {i \in 0..1 : first_child + i <= last}
    IN  IF inrange = {} THEN TRUE
        ELSE LET child == first_child + (CHOOSE i \in inrange : \A j \in inrange : i <= j) IN
             IF bh_compare(arr, mh, child, parent) THEN FALSE
             ELSE bh_validate_heap(arr, mh, last, child)

\* BinaryHeap.__len__
bh_len(last) == last + 1

\* ------------------------------------------------------------------ state
VARIABLES
    cls,               \* the class the caller uses: "DHeap" or "BinaryHeap" ("none" before the first call)
    exists,            \* a heap object has been returned to the caller
    heap_array,        \* self.heap_array
    last_index,        \* self.last_index
    branching_factor,  \* self.branching_factor; 2 for a BinaryHeap, whose code has it as a literal
    max_heap,          \* self.max_heap
    source,            \* the caller's list given to __init__, heapify or heapsort
    aliased,           \* heap_array is the caller's list itself (heapify)
    op,                \* the last call made
    arg,               \* its argument: pushed value, parent index, requested branching factor
    outcome,           \* "ok" or the name of the exception it raised
    ret,               \* <<v>> when it returned the value v, else <<>>
    valid,             \* what validate_heap returned
    pre_array,         \* heap_array (or the caller's list) before the call
    pre_last,          \* last_index before the call
    popped,            \* values returned by pop since construction, while nothing was pushed
    pushed,            \* push has been called since construction
    built,             \* how the heap was made: "init", "heapify", "heapsort" ("none" before)
    given,             \* the list handed to __init__, as it was at the call
    balance,           \* per value: occurrences in the initial list, plus pushes, minus pops
    pc,                \* where a call run step by step stands; "idle" between calls
    idx,               \* the index argument of the running __sift_up / __sift_down
    start,             \* the loop counter of heapify
    depth,             \* frames of the running recursion
    caller,            \* who called the running __sift_down: "pop", "heapify", "heapsort"
    prev_array,        \* heap_array before the last step
    prev_idx,          \* idx before the last step
    step               \* the last step taken ("none" outside the calls run step by step)

vars == <<cls, exists, heap_array, last_index, branching_factor, max_heap, source, aliased,
          op, arg, outcome, ret, valid, pre_array, pre_last, popped, pushed,
          built, given, balance, pc, idx, start, depth, caller, prev_array, prev_idx,
          step>>

\* what only the calls run step by step change
steps == <<pc, idx, start, depth, caller, prev_array, prev_idx, step>>

\* the occurrences of every value in a list
bag_of(arr) == [v \in Values |-> Cardinality({i \in 1..Len(arr) : arr[i] = v})]

\* No call made yet; the fields hold the defaults of __init__.
Init ==
    /\ cls = "none"
    /\ exists = FALSE
    /\ heap_array = <<>>
    /\ last_index = -1
    /\ branching_factor = DefaultBranchingFactor
    /\ max_heap = TRUE
    /\ source = <<>>
    /\ aliased = FALSE
    /\ op = "none"
    /\ arg = 0
    /\ outcome = "ok"
    /\ ret = <<>>
    /\ valid = TRUE
    /\ pre_array = <<>>
    /\ pre_last = -1
    /\ popped = <<>>
    /\ pushed = FALSE
    /\ built = "none"
    /\ given = <<>>
    /\ balance = bag_of(<<>>)
    /\ pc = "idle"
    /\ idx = 0
    /\ start = -1
    /\ depth = 0
    /\ caller = "none"
    /\ prev_array = <<>>
    /\ prev_idx = 0
    /\ step = "none"

\* heap = DHeap(initial_contents, max_heap, branching_factor)
construct(lists) ==
    /\ op = "none"
    /\ \E contents \in lists, mh \in BOOLEAN, bf \in BranchingFactors, limit \in Limits :
         LET r == init(contents, mh, bf, limit) IN
         /\ exists' = (r.err = "ok")
         /\ heap_array' = IF r.err = "ok" THEN r.arr ELSE heap_array
         /\ last_index' = IF r.err = "ok" THEN r.last ELSE last_index
         /\ branching_factor' = IF r.err = "ok" THEN bf ELSE branching_factor
         /\ max_heap' = IF r.err = "ok" THEN mh ELSE max_heap
         /\ source' = IF r.shared /\ r.err = "ok" THEN r.arr ELSE contents
         /\ aliased' = (r.shared /\ r.err = "ok")
         /\ arg' = bf
         /\ outcome' = r.err
         /\ pre_array' = contents
         /\ given' = contents
         /\ balance' = bag_of(contents)
    /\ cls' = "DHeap"
    /\ op' = "init"
    /\ ret' = <<>>
    /\ built' = "init"
    /\ UNCHANGED <<valid, pre_last, popped, pushed>>
    /\ UNCHANGED steps

Construct == construct(ListsUpTo(MaxInit))

\* heap = DHeap.heapify(unordered_list, max_heap, branching_factor)
Heapify ==
    /\ op = "none"
    /\ \E unordered_list \in ListsUpTo(MaxLen), mh \in BOOLEAN, bf \in BranchingFactors :
         LET r == heapify(unordered_list, mh, bf) IN
         /\ exists' = (r.err = "ok")
         /\ heap_array' = IF r.err = "ok" THEN r.arr ELSE heap_array
         /\ last_index' = IF r.err = "ok" THEN r.last ELSE last_index
         /\ branching_factor' = IF r.err = "ok" THEN bf ELSE branching_factor
         /\ max_heap' = IF r.err = "ok" THEN mh ELSE max_heap
         /\ source' = IF r.shared THEN r.arr ELSE unordered_list
         /\ aliased' = (r.shared /\ r.err = "ok")
         /\ arg' = bf
         /\ outcome' = r.err
         /\ pre_array' = unordered_list
         /\ balance' = bag_of(unordered_list)
    /\ cls' = "DHeap"
    /\ op' = "heapify"
    /\ ret' = <<>>
    /\ built' = "heapify"
    /\ UNCHANGED <<valid, pre_last, popped, pushed, given>>
    /\ UNCHANGED steps

\* DHeap.heapsort(unordered_list, ascending): the heap is local to the call,
\* the caller keeps only the list; max_heap records the ordering it used.
Heapsort ==
    /\ op = "none"
    /\ \E unordered_list \in ListsUpTo(MaxSort), ascending \in BOOLEAN :
         /\ source' = heapsort(unordered_list, ascending)
         /\ max_heap' = ascending
         /\ pre_array' = unordered_list
    /\ cls' = "DHeap"
    /\ op' = "heapsort"
    /\ outcome' = "ok"
    /\ ret' = <<>>
    /\ built' = "heapsort"
    /\ UNCHANGED <<exists, heap_array, last_index, branching_factor, aliased, arg,
                   valid, pre_last, popped, pushed, given, balance>>
    /\ UNCHANGED steps

\* DHeap.heapsort(unordered_list, ascending, branching_factor): heapsort is
\* declared with the parameters unordered_list and ascending only, so Python
\* raises TypeError when it binds the arguments, before the body runs.
HeapsortWithBranchingFactor ==
    /\ op = "none"
    /\ \E unordered_list \in ListsUpTo(MaxInit), ascending \in BOOLEAN, bf \in BranchingFactors :
         /\ source' = unordered_list
         /\ pre_array' = unordered_list
         /\ max_heap' = ascending
         /\ arg' = bf
    /\ cls' = "DHeap"
    /\ op' = "heapsort_bf"
    /\ outcome' = "TypeError"
    /\ ret' = <<>>
    /\ built' = "heapsort"
    /\ UNCHANGED <<exists, heap_array, last_index, branching_factor, aliased,
                   valid, pre_last, popped, pushed, given, balance>>
    /\ UNCHANGED steps

\* heap.push(val)
Push ==
    /\ exists
    /\ cls = "DHeap"
    /\ Len(heap_array) < MaxLen
    /\ \E val \in Values, limit \in Limits :
         LET r == push(heap_array, max_heap, branching_factor, last_index, val, limit) IN
         /\ heap_array' = r.arr
         /\ last_index' = r.last
         /\ source' = IF aliased THEN r.arr ELSE source
         /\ arg' = val
         /\ outcome' = r.err
         /\ balance' = [balance EXCEPT ![val] = @ + 1]
    /\ op' = "push"
    /\ ret' = <<>>
    /\ pre_array' = heap_array
    /\ pre_last' = last_index
    /\ popped' = <<>>
    /\ pushed' = TRUE
    /\ UNCHANGED <<cls, exists, branching_factor, max_heap, aliased, valid, built, given>>
    /\ UNCHANGED steps

\* heap.pop()
Pop ==
    /\ exists
    /\ cls = "DHeap"
    /\ LET r == pop(heap_array, max_heap, branching_factor, last_index) IN
         /\ heap_array' = r.arr
         /\ last_index' = r.last
         /\ source' = IF aliased THEN r.arr ELSE source
         /\ outcome' = r.err
         /\ ret' = r.val
         /\ popped' = IF pushed THEN <<>> ELSE popped \o r.val
         /\ balance' = IF r.val = <<>> THEN balance
                        ELSE [balance EXCEPT ![r.val[1]] = @ - 1]
    /\ op' = "pop"
    /\ arg' = 0
    /\ pre_array' = heap_array
    /\ pre_last' = last_index
    /\ UNCHANGED <<cls, exists, branching_factor, max_heap, aliased, valid, pushed,
                   built, given>>
    /\ UNCHANGED steps

\* heap.peek()
Peek ==
    /\ exists
    /\ cls = "DHeap"
    /\ LET r == peek(heap_array) IN
         /\ outcome' = r.err
         /\ ret' = r.val
    /\ op' = "peek"
    /\ arg' = 0
    /\ pre_array' = heap_array
    /\ pre_last' = last_index
    /\ UNCHANGED <<cls, exists, heap_array, last_index, branching_factor, max_heap, source,
                   aliased, valid, popped, pushed, built, given, balance>>
    /\ UNCHANGED steps

\* heap.validate_heap(parent)
Validate ==
    /\ exists
    /\ cls = "DHeap"
    /\ \E parent \in 0..(IF last_index > 0 THEN last_index ELSE 0) :
         /\ valid' = validate_heap(heap_array, max_heap, branching_factor, last_index, parent)
         /\ arg' = parent
    /\ op' = "validate_heap"
    /\ outcome' = "ok"
    /\ ret' = <<>>
    /\ pre_array' = heap_array
    /\ pre_last' = last_index
    /\ UNCHANGED <<cls, exists, heap_array, last_index, branching_factor, max_heap, source,
                   aliased, popped, pushed, built, given, balance>>
    /\ UNCHANGED steps

\* heap = BinaryHeap(initial_contents, max_heap)
binary_construct(lists) ==
    /\ op = "none"
    /\ \E contents \in lists, mh \in BOOLEAN :
         LET r == bh_init(contents, mh) IN
         /\ heap_array' = r.arr
         /\ last_index' = r.last
         /\ max_heap' = mh
         /\ source' = IF r.shared THEN r.arr ELSE contents
         /\ aliased' = r.shared
         /\ pre_array' = contents
         /\ given' = contents
         /\ balance' = bag_of(contents)
    /\ cls' = "BinaryHeap"
    /\ exists' = TRUE
    /\ branching_factor' = 2
    /\ arg' = 2
    /\ outcome' = "ok"
    /\ op' = "init"
    /\ ret' = <<>>
    /\ built' = "init"
    /\ UNCHANGED <<valid, pre_last, popped, pushed>>
    /\ UNCHANGED steps

BinaryConstruct == binary_construct(ListsUpTo(MaxInit))

\* heap = BinaryHeap.heapify(unordered_list, max_heap)
BinaryHeapify ==
    /\ op = "none"
    /\ \E unordered_list \in ListsUpTo(MaxLen), mh \in BOOLEAN :
         LET r == bh_heapify(unordered_list, mh) IN
         /\ heap_array' = r.arr
         /\ last_index' = r.last
         /\ max_heap' = mh
         /\ source' = IF r.shared THEN r.arr ELSE unordered_list
         /\ aliased' = r.shared
         /\ pre_array' = unordered_list
         /\ balance' = bag_of(unordered_list)
    /\ cls' = "BinaryHeap"
    /\ exists' = TRUE
    /\ branching_factor' = 2
    /\ arg' = 2
    /\ outcome' = "ok"
    /\ op' = "heapify"
    /\ ret' = <<>>
    /\ built' = "heapify"
    /\ UNCHANGED <<valid, pre_last, popped, pushed, given>>
    /\ UNCHANGED steps

\* BinaryHeap.heapsort(unordered_list, ascending)
BinaryHeapsort ==
    /\ op = "none"
    /\ \E unordered_list \in ListsUpTo(MaxSort), ascending \in BOOLEAN :
         /\ source' = bh_heapsort(unordered_list, ascending)
         /\ max_heap' = ascending
         /\ pre_array' = unordered_list
    /\ cls' = "BinaryHeap"
    /\ op' = "heapsort"
    /\ outcome' = "ok"
    /\ ret' = <<>>
    /\ built' = "heapsort"
    /\ UNCHANGED <<exists, heap_array, last_index, branching_factor, aliased, arg,
                   valid, pre_last, popped, pushed, given, balance>>
    /\ UNCHANGED steps

\* heap.push(val) on a BinaryHeap
BinaryPush ==
    /\ exists
    /\ cls = "BinaryHeap"
    /\ Len(heap_array) < MaxLen
    /\ \E val \in Values :
         LET r == bh_push(heap_array, max_heap, last_index, val) IN
         /\ heap_array' = r.arr
         /\ last_index' = r.last
         /\ source' = IF aliased THEN r.arr ELSE source
         /\ arg' = val
         /\ outcome' = r.err
         /\ balance' = [balance EXCEPT ![val] = @ + 1]
    /\ op' = "push"
    /\ ret' = <<>>
    /\ pre_array' = heap_array
    /\ pre_last' = last_index
    /\ popped' = <<>>
    /\ pushed' = TRUE
    /\ UNCHANGED <<cls, exists, branching_factor, max_heap, aliased, valid, built, given>>
    /\ UNCHANGED steps

\* heap.pop() on a BinaryHeap
BinaryPop ==
    /\ exists
    /\ cls = "BinaryHeap"
    /\ LET r == bh_pop(heap_array, max_heap, last_index) IN
         /\ heap_array' = r.arr
         /\ last_index' = r.last
         /\ source' = IF aliased THEN r.arr ELSE source
         /\ outcome' = r.err
         /\ ret' = r.val
         /\ popped' = IF pushed THEN <<>> ELSE popped \o r.val
         /\ balance' = IF r.val = <<>> THEN balance
                        ELSE [balance EXCEPT ![r.val[1]] = @ - 1]
    /\ op' = "pop"
    /\ arg' = 0
    /\ pre_array' = heap_array
    /\ pre_last' = last_index
    /\ UNCHANGED <<cls, exists, branching_factor, max_heap, aliased, valid, pushed,
                   built, given>>
    /\ UNCHANGED steps

\* heap.peek() on a BinaryHeap
BinaryPeek ==
    /\ exists
    /\ cls = "BinaryHeap"
    /\ LET r == bh_peek(heap_array) IN
         /\ outcome' = r.err
         /\ ret' = r.val
    /\ op' = "peek"
    /\ arg' = 0
    /\ pre_array' = heap_array
    /\ pre_last' = last_index
    /\ UNCHANGED <<cls, exists, heap_array, last_index, branching_factor, max_heap, source,
                   aliased, valid, popped, pushed, built, given, balance>>
    /\ UNCHANGED steps

\* heap.validate_heap(parent) on a BinaryHeap
BinaryValidate ==
    /\ exists
    /\ cls = "BinaryHeap"
    /\ \E parent \in 0..(IF last_index > 0 THEN last_index ELSE 0) :
         /\ valid' = bh_validate_heap(heap_array, max_heap, last_index, parent)
         /\ arg' = parent
    /\ op' = "validate_heap"
    /\ outcome' = "ok"
    /\ ret' = <<>>
    /\ pre_array' = heap_array
    /\ pre_last' = last_index
    /\ UNCHANGED <<cls, exists, heap_array, last_index, branching_factor, max_heap, source,
                   aliased, popped, pushed, built, given, balance>>
    /\ UNCHANGED steps

\* unordered_list[index] = val by the caller, on the list a heap made by
\* heapify wraps without copying: the heap's storage changes with it.
CallerWrite ==
    /\ exists
    /\ aliased
    /\ \E index \in 0..last_index, val \in Values :
         /\ heap_array' = [heap_array EXCEPT ![index + 1] = val]
         /\ source' = [heap_array EXCEPT ![index + 1] = val]
         /\ arg' = index
         /\ balance' = [[balance EXCEPT ![heap_array[index + 1]] = @ - 1]
                            EXCEPT ![val] = @ + 1]
    /\ op' = "write"
    /\ outcome' = "ok"
    /\ ret' = <<>>
    /\ pre_array' = heap_array
    /\ pre_last' = last_index
    /\ popped' = <<>>
    /\ pushed' = TRUE
    /\ UNCHANGED <<cls, exists, last_index, branching_factor, max_heap, aliased, valid,
                   built, given>>
    /\ UNCHANGED steps

Next ==
    \/ Construct
    \/ Heapify
    \/ Heapsort
    \/ HeapsortWithBranchingFactor
    \/ Push
    \/ Pop
    \/ Peek
    \/ BinaryConstruct
    \/ BinaryHeapify
    \/ BinaryHeapsort
    \/ BinaryPush
    \/ BinaryPop
    \/ BinaryPeek

Spec == Init /\ [][Next]_vars

\* Heaps that are built, pushed to, popped from and validated, with a caller
\* that also writes to the list it gave heapify.
NextShared ==
    \/ Construct
    \/ Heapify
    \/ Push
    \/ Pop
    \/ Validate
    \/ BinaryConstruct
    \/ BinaryHeapify
    \/ BinaryPush
    \/ BinaryPop
    \/ BinaryValidate
    \/ CallerWrite

SpecShared == Init /\ [][NextShared]_vars

\* Heaps that are built by the constructor and then popped until they are
\* empty, over lists of up to MaxDrain elements.
ConstructToDrain == construct(ListsUpTo(MaxDrain))

BinaryConstructToDrain == binary_construct(ListsUpTo(MaxDrain))

NextDrain ==
    \/ ConstructToDrain
    \/ Pop
    \/ BinaryConstructToDrain
    \/ BinaryPop

SpecDrain == Init /\ [][NextDrain]_vars

\* ------------------------------------------ the DHeap calls, step by step
\* A step is one pass through the body of __sift_up or __sift_down up to the
\* call it makes to itself, or one pass through a loop of heapify or heapsort
\* up to the call of __sift_down.

\* what the steps of a call leave alone
kept == <<cls, exists, branching_factor, max_heap, aliased, valid, built, given>>

\* heap.push(val) up to the call self.__sift_up(self.last_index)
PushBegin ==
    /\ exists /\ cls = "DHeap" /\ pc = "idle"
    /\ Len(heap_array) < MaxLen
    /\ \E val \in Values :
         /\ heap_array' = Append(heap_array, val)
         /\ arg' = val
         /\ balance' = [balance EXCEPT ![val] = @ + 1]
    /\ last_index' = last_index + 1
    /\ source' = IF aliased THEN heap_array' ELSE source
    /\ op' = "push" /\ outcome' = "running" /\ ret' = <<>>
    /\ pre_array' = heap_array /\ pre_last' = last_index
    /\ popped' = <<>> /\ pushed' = TRUE
    /\ pc' = "sift_up" /\ idx' = last_index + 1 /\ depth' = 0 /\ caller' = "push"
    /\ prev_array' = heap_array /\ prev_idx' = idx /\ step' = "PushBegin"
    /\ UNCHANGED <<start>>
    /\ UNCHANGED kept

\* one call of self.__sift_up(idx); the call that returns or raises ends push
SiftUpStep ==
    /\ pc = "sift_up"
    /\ \E limit \in Limits :
         /\ limit >= depth
         /\ LET r == sift_up_step(heap_array, max_heap, branching_factor, idx, limit - depth) IN
              /\ heap_array' = r.arr
              /\ idx' = r.index
              /\ pc' = IF r.next = "call" THEN "sift_up" ELSE "idle"
              /\ outcome' = IF r.next = "call" THEN "running" ELSE r.err
    /\ source' = IF aliased THEN heap_array' ELSE source
    /\ depth' = depth + 1
    /\ prev_array' = heap_array /\ prev_idx' = idx /\ step' = "SiftUpStep"
    /\ UNCHANGED <<last_index, op, arg, ret, pre_array, pre_last, popped, pushed, balance,
                   start, caller>>
    /\ UNCHANGED kept

\* heap.pop() up to the call self.__sift_down(0); on an empty heap peek raises
PopBegin ==
    /\ exists /\ cls = "DHeap" /\ pc = "idle"
    /\ LET p == peek(heap_array) IN
         /\ ret' = p.val
         /\ outcome' = IF p.err = "ok" THEN "running" ELSE p.err
         /\ pc' = IF p.err = "ok" THEN "sift_down" ELSE "idle"
         /\ heap_array' = IF p.err = "ok"
                           THEN RemoveAt(swap(heap_array, 0, last_index), last_index)
                           ELSE heap_array
         /\ last_index' = IF p.err = "ok" THEN last_index - 1 ELSE last_index
         /\ popped' = IF pushed THEN <<>> ELSE popped \o p.val
         /\ balance' = IF p.val = <<>> THEN balance
                        ELSE [balance EXCEPT ![p.val[1]] = @ - 1]
    /\ source' = IF aliased THEN heap_array' ELSE source
    /\ op' = "pop" /\ arg' = 0
    /\ pre_array' = heap_array /\ pre_last' = last_index
    /\ idx' = 0 /\ depth' = 0 /\ caller' = "pop"
    /\ prev_array' = heap_array /\ prev_idx' = idx /\ step' = "PopBegin"
    /\ UNCHANGED <<pushed, start>>
    /\ UNCHANGED kept

\* one call of self.__sift_down(idx); the call that returns goes back to pop
\* or to the loop of heapify or heapsort that made the first call
SiftDownStep ==
    /\ pc = "sift_down"
    /\ LET r == sift_down_step(heap_array, max_heap, branching_factor, last_index, idx) IN
         /\ heap_array' = r.arr
         /\ idx' = r.index
         /\ pc' = IF r.next = "call" THEN "sift_down"
                   ELSE IF caller = "pop" THEN "idle"
                   ELSE IF caller = "heapify" THEN "heapify_loop"
                   ELSE "heapsort_loop"
         /\ outcome' = IF r.next = "return" /\ caller = "pop" THEN "ok" ELSE "running"
         /\ start' = IF r.next = "return" /\ caller = "heapify"
                      THEN heapify_next(start) ELSE start
    /\ source' = IF aliased THEN heap_array' ELSE source
    /\ depth' = depth + 1
    /\ prev_array' = heap_array /\ prev_idx' = idx /\ step' = "SiftDownStep"
    /\ UNCHANGED <<last_index, op, arg, ret, pre_array, pre_last, popped, pushed, balance,
                   caller>>
    /\ UNCHANGED kept

\* DHeap.heapify(unordered_list, mh, bf) up to its loop; the same lines run
\* for heapsort, which calls heapify with the default branching factor
heapify_begin(call, unordered_list, mh, bf) ==
    /\ cls' = "DHeap"
    /\ op' = call /\ arg' = bf /\ ret' = <<>>
    /\ built' = call
    /\ heap_array' = unordered_list
    /\ source' = unordered_list
    /\ pre_array' = unordered_list
    /\ aliased' = TRUE
    /\ last_index' = Len(unordered_list) - 1
    /\ branching_factor' = bf
    /\ max_heap' = mh
    /\ balance' = bag_of(unordered_list)
    /\ outcome' = IF bf = 0 THEN "ZeroDivisionError" ELSE "running"
    /\ pc' = IF bf = 0 THEN "idle" ELSE "heapify_loop"
    /\ start' = IF bf = 0 THEN start ELSE heapify_start(Len(unordered_list) - 1, bf)
    /\ prev_array' = heap_array /\ prev_idx' = idx /\ step' = "HeapifyBegin"
    /\ UNCHANGED <<exists, valid, pre_last, popped, pushed, given, idx, depth, caller>>

HeapifyBegin ==
    /\ op = "none"
    /\ \E unordered_list \in ListsUpTo(MaxLen), mh \in BOOLEAN, bf \in BranchingFactors :
         heapify_begin("heapify", unordered_list, mh, bf)

HeapsortBegin ==
    /\ op = "none"
    /\ \E unordered_list \in ListsUpTo(MaxSort), ascending \in BOOLEAN :
         heapify_begin("heapsort", unordered_list, ascending, DefaultBranchingFactor)

\* the test of heapify's while loop: it calls heap.__sift_down(start), or
\* heapify returns the heap, to the caller or to heapsort
HeapifyLoop ==
    /\ pc = "heapify_loop"
    /\ pc' = IF start >= 0 THEN "sift_down"
              ELSE IF op = "heapsort" THEN "heapsort_loop" ELSE "idle"
    /\ idx' = IF start >= 0 THEN start ELSE idx
    /\ depth' = 0
    /\ caller' = IF start >= 0 THEN "heapify" ELSE caller
    /\ exists' = (start < 0 /\ op = "heapify")
    /\ outcome' = IF start < 0 /\ op = "heapify" THEN "ok" ELSE "running"
    /\ prev_array' = heap_array /\ prev_idx' = idx /\ step' = "HeapifyLoop"
    /\ UNCHANGED <<cls, heap_array, last_index, branching_factor, max_heap, source, aliased,
                   op, arg, ret, valid, pre_array, pre_last, popped, pushed, built, given,
                   balance, start>>

\* the test of heapsort's while loop: it swaps the root behind the live
\* range, shrinks the range and calls heap.__sift_down(0), or heapsort returns
HeapsortLoop ==
    /\ pc = "heapsort_loop"
    /\ LET t == heapsort_take(heap_array, last_index) IN
         /\ heap_array' = IF last_index >= 0 THEN t.arr ELSE heap_array
         /\ last_index' = IF last_index >= 0 THEN t.last ELSE last_index
    /\ source' = heap_array'
    /\ pc' = IF last_index >= 0 THEN "sift_down" ELSE "idle"
    /\ idx' = IF last_index >= 0 THEN 0 ELSE idx
    /\ depth' = 0
    /\ caller' = IF last_index >= 0 THEN "heapsort" ELSE caller
    /\ outcome' = IF last_index >= 0 THEN "running" ELSE "ok"
    /\ prev_array' = heap_array /\ prev_idx' = idx /\ step' = "HeapsortLoop"
    /\ UNCHANGED <<cls, exists, branching_factor, max_heap, aliased, op, arg, ret, valid,
                   pre_array, pre_last, popped, pushed, built, given, balance, start>>

NextSteps ==
    \/ Construct
    \/ PushBegin
    \/ SiftUpStep
    \/ PopBegin
    \/ SiftDownStep
    \/ HeapifyBegin
    \/ HeapifyLoop
    \/ HeapsortBegin
    \/ HeapsortLoop

SpecSteps == Init /\ [][NextSteps]_vars

\* The same calls, with one push or one pop on every heap that the
\* constructor or heapify returns.
PushOnce == op \in {"init", "heapify"} /\ PushBegin

PopOnce == op \in {"init", "heapify"} /\ PopBegin

NextOnce ==
    \/ Construct
    \/ PushOnce
    \/ SiftUpStep
    \/ PopOnce
    \/ SiftDownStep
    \/ HeapifyBegin
    \/ HeapifyLoop
    \/ HeapsortBegin
    \/ HeapsortLoop

SpecOnce == Init /\ [][NextOnce]_vars

\* A call that has begun runs on: Python runs the body of a call to its end.
FairSteps ==
    /\ WF_vars(SiftUpStep)
    /\ WF_vars(SiftDownStep)
    /\ WF_vars(HeapifyLoop)
    /\ WF_vars(HeapsortLoop)

SpecOnceFair == SpecOnce /\ FairSteps

\* Heaps that are built and validated, with a caller that also writes to the
\* list it gave heapify.
NextValidate ==
    \/ Construct
    \/ Heapify
    \/ Validate
    \/ BinaryConstruct
    \/ BinaryHeapify
    \/ BinaryValidate
    \/ CallerWrite

SpecValidate == Init /\ [][NextValidate]_vars

\* Every call of a BinaryHeap, with a caller that also writes to the list it
\* gave heapify.
NextBinary ==
    \/ BinaryConstruct
    \/ BinaryHeapify
    \/ BinaryHeapsort
    \/ BinaryPush
    \/ BinaryPop
    \/ BinaryPeek
    \/ BinaryValidate
    \/ CallerWrite

SpecBinary == Init /\ [][NextBinary]_vars

\* ------------------------------------------------- vocabulary of the claims
\* a is at least as extreme as b under the ordering
at_least(mh, a, b) == IF mh THEN a >= b ELSE a <= b

\* number of occurrences of v in the list
Count(arr, v) == Cardinality({j \in 1..Len(arr) : arr[j] = v})

\* the two lists hold the same multiset of elements
SameElements(a, b) == Len(a) = Len(b) /\ \A v \in Values : Count(a, v) = Count(b, v)

\* the list a is the list b with one occurrence of v removed
OneRemoved(a, b, v) ==
    /\ Len(a) + 1 = Len(b)
    /\ \A w \in Values : Count(a, w) + (IF w = v THEN 1 ELSE 0) = Count(b, w)

\* every element is at least as extreme as its successor
Ordered(seq, mh) == \A j \in 1..(Len(seq) - 1) : at_least(mh, seq[j], seq[j + 1])

\* v is at least as extreme as every element of the list
Extreme(arr, mh, v) == \A j \in 1..Len(arr) : at_least(mh, v, arr[j])

\* the heap property at every live index, for every child of it
HeapProperty(arr, last, bf, mh) ==
    \A i \in 0..last : \A k \in 0..(bf - 1) :
        LET c == (i * bf) + k + 1 IN
        c <= last => at_least(mh, arr[i + 1], arr[c + 1])

\* ----------------------------------------------------------------- claims
\* C1: on a heap with branching factor >= 1 that the constructor built (empty
\* or from a list), after any pushes and pops every live index is at least as
\* extreme as each of its children within the live range.
Inv_C1_HeapOrder ==
    (exists /\ ~aliased /\ branching_factor >= 1)
        => HeapProperty(heap_array, last_index, branching_factor, max_heap)

Wit_C1_HeapOrder ==
    /\ exists /\ ~aliased /\ branching_factor = 2 /\ ~max_heap
    /\ op = "pop" /\ outcome = "ok" /\ pushed
    /\ last_index = 2 /\ heap_array[1] < heap_array[2] /\ heap_array[2] < heap_array[3]

\* C2: pop on a non-empty heap returns the most extreme element stored, which
\* is the element peek would have returned, and removes one occurrence of it
\* and nothing else.
Cex_C2_PopExtreme ==
    (exists /\ op = "pop" /\ pre_last >= 0)
        => /\ outcome = "ok"
           /\ ret = peek(pre_array).val
           /\ Extreme(pre_array, max_heap, ret[1])
           /\ OneRemoved(heap_array, pre_array, ret[1])

\* C3: popping a heap the constructor built over a list until it is empty
\* yields the elements of the list, each once, most extreme first.
Cex_C3_PopAllSorted ==
    (exists /\ ~aliased /\ ~pushed /\ op = "pop" /\ outcome = "ok" /\ last_index = -1)
        => /\ SameElements(popped, source)
           /\ Ordered(popped, max_heap)

\* C4: heapify with a branching factor >= 1 returns a heap whose size is the
\* length of the list and whose storage has the heap property at every live
\* index; for the empty list its loop over the parents does not run.
Inv_C4_Heapify ==
    (op = "heapify" /\ arg >= 1)
        => /\ exists /\ outcome = "ok"
           /\ branching_factor = arg
           /\ len(last_index) = Len(pre_array)
           /\ Len(heap_array) = Len(pre_array)
           /\ HeapProperty(heap_array, last_index, branching_factor, max_heap)
           /\ (pre_array = <<>>
                 => heapify_start(last_index, branching_factor) < 0 /\ heap_array = <<>>)

Wit_C4_Heapify ==
    /\ op = "heapify" /\ arg = 2 /\ exists
    /\ Len(pre_array) = 4 /\ pre_array[4] > pre_array[2] /\ pre_array[2] > pre_array[1]
    /\ heap_array # pre_array

\* C5: heapsort leaves the list with its length and its multiset of elements,
\* in non-decreasing order when ascending and in non-increasing order otherwise.
Inv_C5_Heapsort ==
    op = "heapsort"
        => /\ Len(source) = Len(pre_array)
           /\ SameElements(source, pre_array)
           /\ Ordered(source, ~max_heap)

Wit_C5_Heapsort ==
    /\ op = "heapsort" /\ ~max_heap
    /\ Len(pre_array) = 5 /\ source # pre_array
    /\ source[1] = 2 /\ source[3] = 1 /\ source[5] = 0

\* C6: peek and pop on a heap of size 0 raise instead of returning a value and
\* leave storage and size as they were; len is 0 before and after.
Inv_C6_EmptyRaises ==
    (exists /\ op \in {"peek", "pop"} /\ pre_last = -1)
        => /\ outcome # "ok"
           /\ ret = <<>>
           /\ heap_array = pre_array
           /\ last_index = pre_last
           /\ len(pre_last) = 0
           /\ len(last_index) = 0

Wit_C6_EmptyRaises ==
    /\ exists /\ op = "pop" /\ pre_last = -1 /\ outcome = "IndexError"
    /\ Len(popped) = 2

\* C7: construction with a branching factor < 1, by the constructor or by
\* heapify, raises, so that no heap with a branching factor < 1 exists.
Cex_C7_RejectsBranchingFactor ==
    /\ (op \in {"init", "heapify"} /\ arg < 1) => (outcome # "ok" /\ ~exists)
    /\ exists => branching_factor >= 1

\* C8: a push or pop that raises leaves storage and size as they were before
\* the call, and so does a heapify that raises.
Cex_C8_NoPartialMutation ==
    /\ (exists /\ op \in {"push", "pop"} /\ outcome # "ok")
         => (heap_array = pre_array /\ last_index = pre_last)
    /\ (op = "heapify" /\ outcome # "ok") => source = pre_array

\* node n lies in the subtree rooted at root
RECURSIVE in_subtree(_, _, _)
in_subtree(n, root, bf) ==
    IF n = root THEN TRUE
    ELSE IF n < root \/ bf < 1 THEN FALSE
    ELSE in_subtree(parent_of(n, bf), root, bf)

\* the heap property at every live node of the subtree rooted at root
SubtreeProperty(arr, last, bf, mh, root) ==
    \A i \in 0..last : in_subtree(i, root, bf) =>
        \A k \in 0..(bf - 1) :
            LET c == (i * bf) + k + 1 IN
            c <= last => at_least(mh, arr[i + 1], arr[c + 1])

\* C9: validate_heap(parent) returns True exactly when no live node of the
\* subtree rooted at parent has a child, first or later, that is strictly
\* more extreme than it.
Cex_C9_ValidateSubtree ==
    (exists /\ op = "validate_heap")
        => (valid <=> SubtreeProperty(heap_array, last_index, branching_factor, max_heap, arg))

\* C10: peek on a non-empty heap returns the element at index 0, which is the
\* most extreme element stored, and leaves storage, size and len as they were.
Cex_C10_PeekExtreme ==
    (exists /\ op = "peek" /\ pre_last >= 0)
        => /\ outcome = "ok"
           /\ ret = <<pre_array[1]>>
           /\ Extreme(pre_array, max_heap, ret[1])
           /\ heap_array = pre_array
           /\ last_index = pre_last
           /\ len(last_index) = len(pre_last)

\* the list in reverse order
RECURSIVE Reverse(_)
Reverse(seq) == IF seq = <<>> THEN <<>> ELSE Reverse(Tail(seq)) \o <<Head(seq)>>

\* the values a caller gets who calls pop on a DHeap until it is empty
RECURSIVE pop_all(_, _, _, _)
pop_all(arr, mh, bf, last) ==
    IF Len(arr) = 0 THEN <<>>
    ELSE LET r == pop(arr, mh, bf, last) IN r.val \o pop_all(r.arr, mh, bf, r.last)

\* the same on a BinaryHeap
RECURSIVE bh_pop_all(_, _, _)
bh_pop_all(arr, mh, last) ==
    IF Len(arr) = 0 THEN <<>>
    ELSE LET r == bh_pop(arr, mh, last) IN r.val \o bh_pop_all(r.arr, mh, r.last)

\* what popping until empty yields on a heap of the class c built by the
\* constructor over contents with the ordering mh
popped_from(c, contents, mh, bf) ==
    IF c = "BinaryHeap"
    THEN LET h == bh_init(contents, mh) IN bh_pop_all(h.arr, mh, h.last)
    ELSE LET h == init(contents, mh, bf, RecursionLimit) IN pop_all(h.arr, mh, bf, h.last)

\* C11: the values popped until empty from a heap built over a list with one
\* ordering are, in reverse, the values popped until empty from a heap built
\* over the same list with the other ordering.
Cex_C11_MinReversesMax ==
    (exists /\ ~aliased /\ ~pushed /\ op = "pop" /\ outcome = "ok" /\ last_index = -1)
        => popped = Reverse(popped_from(cls, source, ~max_heap, branching_factor))

\* the number of elements a balance stands for
RECURSIVE total(_, _)
total(b, vs) ==
    IF vs = {} THEN 0
    ELSE LET v == CHOOSE x \in vs : TRUE IN b[v] + total(b, vs \ {v})

\* C12: on a heap built by the constructor with a branching factor >= 1,
\* after any pushes and pops the stored elements are, as a multiset, the
\* initial ones plus the pushed ones minus the popped ones, len() is the
\* size of that multiset, and the storage list is len() long.
Inv_C12_Multiset ==
    (exists /\ built = "init" /\ branching_factor >= 1)
        => /\ bag_of(heap_array) = balance
           /\ len(last_index) = total(balance, Values)
           /\ Len(heap_array) = len(last_index)

Wit_C12_Multiset ==
    /\ exists /\ built = "init" /\ branching_factor = 3
    /\ op = "pop" /\ outcome = "ok" /\ pushed
    /\ Len(given) = 3
    /\ balance # bag_of(given)
    /\ bag_of(heap_array) = balance

\* C13: the list handed to the constructor stays as it was at the call, same
\* elements in the same order, whatever is pushed to or popped from the heap
\* afterwards.
Inv_C13_ConstructorFrame ==
    (built = "init") => source = given

Wit_C13_ConstructorFrame ==
    /\ built = "init" /\ exists /\ ~aliased
    /\ op = "pop" /\ outcome = "ok" /\ pushed
    /\ Len(given) = 3
    /\ source = given
    /\ heap_array # given

\* C14: heapify makes no copy. The heap it returns stores its elements in the
\* caller's list itself; after the call that list is a permutation of what
\* it was, of the same length, and whatever push and pop do to the heap later
\* shows in the caller's list.
Inv_C14_HeapifyShares ==
    /\ (op = "heapify" /\ outcome = "ok")
          => /\ exists /\ aliased
             /\ SameElements(source, pre_array)
             /\ Len(source) = Len(pre_array)
    /\ (built = "heapify" /\ exists)
          => aliased /\ source = heap_array

Wit_C14_HeapifyShares ==
    /\ built = "heapify" /\ exists /\ aliased
    /\ op = "push" /\ outcome = "ok" /\ pre_last >= 1
    /\ source = heap_array
    /\ source # pre_array

\* C15: heapsort takes a branching factor, and for every branching factor
\* >= 1 it sorts the list in place with a heap of that branching factor.
Cex_C15_HeapsortBranchingFactor ==
    (op = "heapsort_bf" /\ arg >= 1)
        => /\ outcome = "ok"
           /\ branching_factor = arg
           /\ Ordered(source, ~max_heap)
           /\ SameElements(source, pre_array)

\* C16: a BinaryHeap does what a DHeap with branching_factor=2 does. Every
\* call on a BinaryHeap returns the value (or raises the exception) and
\* leaves the storage list and the size that the same call with the same
\* arguments and ordering gives on a DHeap with branching_factor=2 in the
\* same state; both start from the same state, so whole call sequences agree.
Inv_C16_BinaryIsDHeap2 ==
    (cls = "BinaryHeap") =>
      /\ (op = "init") =>
            LET d == init(pre_array, max_heap, 2, RecursionLimit) IN
            /\ outcome = d.err /\ heap_array = d.arr /\ last_index = d.last
            /\ aliased = d.shared
      /\ (op = "heapify") =>
            LET d == heapify(pre_array, max_heap, 2) IN
            /\ outcome = d.err /\ heap_array = d.arr /\ last_index = d.last
            /\ aliased = d.shared
      /\ (op = "heapsort") =>
            /\ outcome = "ok" /\ source = heapsort(pre_array, max_heap)
      /\ (op = "push") =>
            LET d == push(pre_array, max_heap, 2, pre_last, arg, RecursionLimit) IN
            /\ outcome = d.err /\ heap_array = d.arr /\ last_index = d.last
      /\ (op = "pop") =>
            LET d == pop(pre_array, max_heap, 2, pre_last) IN
            /\ outcome = d.err /\ ret = d.val
            /\ heap_array = d.arr /\ last_index = d.last
      /\ (op = "peek") =>
            LET d == peek(pre_array) IN
            /\ outcome = d.err /\ ret = d.val
            /\ heap_array = pre_array /\ last_index = pre_last
      /\ (op = "validate_heap") =>
            /\ valid = validate_heap(pre_array, max_heap, 2, pre_last, arg)
            /\ heap_array = pre_array /\ last_index = pre_last
      /\ (exists => bh_len(last_index) = len(last_index))

Wit_C16_BinaryIsDHeap2 ==
    /\ cls = "BinaryHeap" /\ exists
    /\ op = "pop" /\ outcome = "ok"
    /\ Len(pre_array) = 4
    /\ heap_array # RemoveAt(pre_array, 0)
    /\ heap_array = pop(pre_array, max_heap, 2, pre_last).arr

\* a is strictly more extreme than b
more_extreme(mh, a, b) == ~at_least(mh, b, a)

\* the children of the node within the live range
children(node, bf, last) == {c \in 0..last : \E k \in 0..(bf - 1) : c = (node * bf) + k + 1}

\* C17: a sift-down step at a node whose most extreme child within the live
\* range is strictly more extreme than the node swaps the node with that
\* child, the one with the lowest index if several children are equally most
\* extreme, and goes on from there; a step at a node with no strictly more
\* extreme child swaps nothing and ends the sift-down.
Inv_C17_SiftDownStep ==
    (step = "SiftDownStep") =>
        LET kids == children(prev_idx, branching_factor, last_index)
            more == {c \in kids : more_extreme(max_heap, prev_array[c + 1], prev_array[prev_idx + 1])}
            tops == {c \in kids : \A k \in kids :
                         at_least(max_heap, prev_array[c + 1], prev_array[k + 1])}
        IN  IF more = {}
            THEN heap_array = prev_array /\ pc # "sift_down"
            ELSE LET best == CHOOSE c \in tops : \A k \in tops : c <= k IN
                 /\ heap_array = swap(prev_array, prev_idx, best)
                 /\ idx = best
                 /\ pc = "sift_down"

Wit_C17_SiftDownStep ==
    /\ step = "SiftDownStep" /\ pc = "sift_down"
    /\ branching_factor = 3 /\ last_index = 3
    /\ prev_idx = 0 /\ idx = 2
    /\ prev_array[3] = prev_array[4]
    /\ prev_array[2] # prev_array[3]
    /\ heap_array # prev_array

\* no first child on the chain node, first child of node, first child of
\* that child, ... within the live range is strictly more extreme than its
\* parent
RECURSIVE first_child_chain_ok(_, _, _, _, _)
first_child_chain_ok(arr, mh, bf, last, node) ==
    LET kids == children(node, bf, last) IN
    IF kids = {} THEN TRUE
    ELSE LET first == CHOOSE c \in kids : \A k \in kids : c <= k IN
         /\ ~more_extreme(mh, arr[first + 1], arr[node + 1])
         /\ first_child_chain_ok(arr, mh, bf, last, first)

StepsDecrease ==
    (branching_factor >= 1) =>
      /\ (pc = "sift_up" /\ pc' = "sift_up") => (idx' < idx /\ idx' >= 0)
      /\ (pc = "sift_up" /\ idx = 0) => pc' # "sift_up"
      /\ (pc = "sift_down" /\ pc' = "sift_down") => (idx' > idx /\ idx' <= last_index)
      /\ (pc = "sift_down" /\ children(idx, branching_factor, last_index) = {})
            => pc' # "sift_down"
      /\ (pc = "sift_down" /\ pc' = "heapify_loop") => (start >= 0 /\ start' = start - 1)
      /\ (pc = "heapify_loop" /\ pc' = "sift_down") => start >= 0
      /\ (pc = "heapify_loop" /\ pc' \notin {"heapify_loop", "sift_down"})
            => (start < 0 /\ (start = -1 \/ step = "HeapifyBegin"))
      /\ (pc = "heapsort_loop" /\ pc' = "sift_down")
            => (last_index >= 0 /\ last_index' = last_index - 1)
      /\ (pc = "heapsort_loop" /\ pc' = "idle") => last_index = -1

\* C19: every push, pop, heapify and heapsort on a heap with branching factor
\* >= 1 comes to its end. A sift-up step goes to a strictly smaller index and
\* there is none from index 0; a sift-down step goes to a strictly larger
\* index and there is none from a node without a child in the live range;
\* the loops of heapify and heapsort take their counter (start, last_index)
\* down by one each time and end at -1.
Thm_C19_Terminates ==
    /\ [][StepsDecrease]_vars
    /\ (outcome = "running" /\ branching_factor >= 1) ~> (outcome = "ok")

Wit_C19_Terminates ==
    /\ op = "heapsort" /\ outcome = "ok" /\ pc = "idle"
    /\ step = "HeapsortLoop"
    /\ Len(pre_array) = 5 /\ last_index = -1
    /\ heap_array # pre_array

\* C20: whenever heapsort stands at the test of its extraction loop, before
\* the first pass and at the end of every pass, the live prefix
\* 0..last_index has the heap property, the suffix behind it is sorted and
\* no element of the prefix is strictly more extreme than an element of the
\* suffix (so the suffix is where it stays), and the list has the length
\* and the multiset of elements it was given; heapsort returns with
\* last_index = -1.
Inv_C20_HeapsortLoop ==
    /\ (op = "heapsort" /\ pc = "heapsort_loop") =>
          LET n == Len(heap_array) IN
          /\ HeapProperty(heap_array, last_index, branching_factor, max_heap)
          /\ \A j \in (last_index + 2)..(n - 1) :
                at_least(max_heap, heap_array[j + 1], heap_array[j])
          /\ \A i \in 1..(last_index + 1) : \A j \in (last_index + 2)..n :
                ~more_extreme(max_heap, heap_array[i], heap_array[j])
          /\ n = Len(pre_array)
          /\ SameElements(heap_array, pre_array)
          /\ last_index >= -1
    /\ (op = "heapsort" /\ outcome = "ok") =>
          /\ last_index = -1
          /\ source = heap_array
          /\ Ordered(source, ~max_heap)

Wit_C20_HeapsortLoop ==
    /\ op = "heapsort" /\ pc = "heapsort_loop" /\ step = "SiftDownStep"
    /\ Len(pre_array) = 5 /\ last_index = 2
    /\ heap_array[4] # heap_array[5]
    /\ heap_array[1] # heap_array[3]
    /\ heap_array # pre_array

\* the positions on the path from index towards the root: index, its parent
\* at floor((index - 1) / bf), the parent of that, ... (at most fuel parents)
RECURSIVE path_to_root(_, _, _)
path_to_root(index, bf, fuel) ==
    IF fuel = 0 \/ bf = 0 THEN {index}
    ELSE LET par == FloorDiv(index - 1, bf) IN
         IF par >= 0 /\ par # index
         THEN {index} \cup path_to_root(par, bf, fuel - 1)
         ELSE {index}

\* C21: push(v) appends v at index size. A sift-up step swaps the element
\* with its parent at floor((index - 1) / branching_factor) only when the
\* element is strictly more extreme than that parent, and goes on from the
\* parent; an element that is not, one equal to its parent included, stays
\* and push ends. Through the whole push the list is one longer than before
\* and every position off the path from the appended index to the root
\* keeps its value.
Inv_C21_PushFrame ==
    /\ (step = "PushBegin") =>
          /\ heap_array = Append(pre_array, arg)
          /\ idx = Len(pre_array) /\ last_index = idx
    /\ (step = "SiftUpStep") =>
          LET par == IF branching_factor = 0 THEN -1
                     ELSE FloorDiv(prev_idx - 1, branching_factor)
              strict == /\ par >= 0 /\ par < Len(prev_array)
                        /\ more_extreme(max_heap, prev_array[prev_idx + 1], prev_array[par + 1])
          IN  /\ (heap_array # prev_array) => strict
              /\ (strict /\ outcome # "RecursionError")
                    => /\ heap_array = swap(prev_array, prev_idx, par)
                       /\ idx = par /\ pc = "sift_up"
              /\ (~strict \/ outcome = "RecursionError")
                    => /\ heap_array = prev_array
                       /\ idx = prev_idx /\ pc = "idle"
    /\ (op = "push" /\ step \in {"PushBegin", "SiftUpStep"}) =>
          /\ Len(heap_array) = Len(pre_array) + 1
          /\ last_index = pre_last + 1
          /\ \A i \in 0..(Len(pre_array) - 1) :
                i \notin path_to_root(Len(pre_array), branching_factor, Len(heap_array))
                    => heap_array[i + 1] = pre_array[i + 1]

Wit_C21_PushFrame ==
    /\ op = "push" /\ step = "SiftUpStep" /\ pc = "idle" /\ outcome = "ok"
    /\ branching_factor = 2 /\ Len(pre_array) = 3
    /\ idx = 1 /\ heap_array[2] = arg
    /\ heap_array[1] = arg
    /\ heap_array[4] = pre_array[2] /\ heap_array[4] # arg
    /\ heap_array[3] = pre_array[3]

====
